---------------------------- MODULE Spec2Model ----------------------------
(***************************************************************************)
(* State-machine model of the CSV import wizard (CSVImportForm) of         *)
(* SupportKings/owaimport: column mapping, intra-file duplicate grouping   *)
(* and resolution, remote (Airtable) duplicate lookup and finalization.    *)
(*                                                                         *)
(* Strings are TLC strings; \o, Len and SubSeq work on them character by   *)
(* character, so keys and prefixes are computed as the code computes them. *)
(* Row indices (_originalIndex, selectedIndex, mergeFields) are 0-based as *)
(* in the code; data[i + 1] is the row with original index i.              *)
(***************************************************************************)
EXTENDS Integers, Sequences, FiniteSets, TLC

VARIABLES
    file,                     \* useState file: the selected file, or FileNone
    reading,                  \* FileReaders whose onload has not fired yet (set of files)
    headers,                  \* useState headers
    mappings,                 \* useState mappings: field key -> header
    step,                     \* useState step
    data,                     \* useState data: sequence of rows (header -> cell)
    duplicateMatchFields,     \* useState duplicateMatchFields: field -> BOOLEAN
    bulkDuplicateAction,      \* useState bulkDuplicateAction
    csvDuplicates,            \* useState csvDuplicates: sequence of groups
    csvDuplicateResolutions,  \* useState csvDuplicateResolutions: group key -> resolution
    duplicates,               \* useState duplicates: remote matches
    duplicateResolutions,     \* useState duplicateResolutions: ordered map, remote id -> resolution
    invalidData,              \* useState invalidData
    importResult,             \* useState importResult
    isLoading,                \* useState isLoading
    env,                      \* what the page is opened with: recordID of the URL
    flight,                   \* the handleNextStep call that is awaiting, with its closure
    webhookData               \* payload handleImport built for the request in flight

vars == <<file, reading, headers, mappings, step, data, duplicateMatchFields,
          bulkDuplicateAction, csvDuplicates, csvDuplicateResolutions,
          duplicates, duplicateResolutions, invalidData, importResult,
          isLoading, env, flight, webhookData>>

-----------------------------------------------------------------------------
(* Bounds of the explored inputs *)

MaxRows == 3
MaxHeaders == 2

-----------------------------------------------------------------------------
(* String helpers *)

CharAt(s, i) == SubSeq(s, i, i)

toLowerCaseChar(c) ==
    CASE c = "A" -> "a" [] c = "B" -> "b" [] c = "C" -> "c" [] c = "D" -> "d"
      [] c = "E" -> "e" [] c = "F" -> "f" [] c = "G" -> "g" [] c = "H" -> "h"
      [] c = "I" -> "i" [] c = "J" -> "j" [] c = "K" -> "k" [] c = "L" -> "l"
      [] c = "M" -> "m" [] c = "N" -> "n" [] c = "O" -> "o" [] c = "P" -> "p"
      [] c = "Q" -> "q" [] c = "R" -> "r" [] c = "S" -> "s" [] c = "T" -> "t"
      [] c = "U" -> "u" [] c = "V" -> "v" [] c = "W" -> "w" [] c = "X" -> "x"
      [] c = "Y" -> "y" [] c = "Z" -> "z" [] OTHER -> c

RECURSIVE toLowerCase(_)
toLowerCase(s) ==
    IF Len(s) = 0 THEN ""
    ELSE toLowerCaseChar(CharAt(s, 1)) \o toLowerCase(SubSeq(s, 2, Len(s)))

startsWith(s, p) == Len(s) >= Len(p) /\ SubSeq(s, 1, Len(p)) = p

\* JavaScript truthiness of a string
Truthy(s) == s # ""

RECURSIVE SeqToSet(_)
SeqToSet(s) == IF s = <<>> THEN {} ELSE {Head(s)} \cup SeqToSet(Tail(s))

RECURSIVE SeqsUpTo(_, _)
SeqsUpTo(S, n) ==
    IF n = 0 THEN {<<>>}
    ELSE LET shorter == SeqsUpTo(S, n - 1)
         IN  shorter \cup {Append(q, x) : q \in {t \in shorter : Len(t) = n - 1}, x \in S}

-----------------------------------------------------------------------------
(* Canonical fields *)

\* availableFields, in declaration order
availableFields ==
    << [value |-> "appName",            label |-> "App Name"],
       [value |-> "appId",              label |-> "App ID"],
       [value |-> "developer",          label |-> "Developer"],
       [value |-> "category",           label |-> "Category"],
       [value |-> "country",            label |-> "Country"],
       [value |-> "companyWebsite",     label |-> "Company Website"],
       [value |-> "companyLinkedinUrl", label |-> "Company LinkedIn URL"],
       [value |-> "sensorTowerId",      label |-> "Sensor Tower ID"],
       [value |-> "googlePlayId",       label |-> "Google Play ID"],
       [value |-> "developerId",        label |-> "Developer ID"] >>

\* key order of the DuplicateMatchFields object (the same ten keys)
FieldOrder ==
    <<"appName", "appId", "developer", "category", "country", "companyWebsite",
      "companyLinkedinUrl", "sensorTowerId", "googlePlayId", "developerId">>

FieldNames == {FieldOrder[i] : i \in DOMAIN FieldOrder}

NoFile == "<none>"

EmptyMap == [k \in {} |-> ""]

\* obj with obj[k] = v set (a new key is added, an old one overwritten)
Put(obj, k, v) == [x \in DOMAIN obj \cup {k} |-> IF x = k THEN v ELSE obj[x]]

\* delete obj[k] for every k in ks
Without(obj, ks) == [x \in DOMAIN obj \ ks |-> obj[x]]


-----------------------------------------------------------------------------
(* Files.  A file is its content already split: line 0 as the list of      *)
(* trimmed header cells, the other lines as lists of trimmed cells.        *)

FileNone == [name |-> NoFile, headers |-> <<>>, lines |-> <<>>]

\* headers.reduce((obj, header, index) => obj[header] = values[index]?.trim())
\* a header that occurs twice keeps the cell of its last column; a missing
\* cell (undefined) is read as "" by every consumer (row[h] || "")
ParsedRow(hs, values) ==
    [h \in SeqToSet(hs) |->
        LET last == CHOOSE i \in DOMAIN hs :
                        hs[i] = h /\ \A j \in DOMAIN hs : hs[j] = h => j <= i
        IN  IF last \in DOMAIN values THEN values[last] ELSE ""]

ParsedData(f) == [i \in DOMAIN f.lines |-> ParsedRow(f.headers, f.lines[i])]

\* availableFields.find(field => field.label.toLowerCase() === header.toLowerCase())
\* the index of the first matching field, 0 when there is none
MatchingField(header) ==
    LET hits == {i \in DOMAIN availableFields :
                    toLowerCase(availableFields[i].label) = toLowerCase(header)}
    IN  IF hits = {} THEN 0 ELSE CHOOSE i \in hits : \A j \in hits : i <= j

CustomKey(header) == "custom_" \o header

\* the key initialMappings gets for one header
AutoKey(header) ==
    IF MatchingField(header) # 0
    THEN availableFields[MatchingField(header)].value
    ELSE CustomKey(header)

\* headers.forEach(header => initialMappings[key] = header), left to right
RECURSIVE AutoMap(_, _)
AutoMap(hs, acc) ==
    IF hs = <<>> THEN acc
    ELSE AutoMap(Tail(hs), Put(acc, AutoKey(Head(hs)), Head(hs)))

initialMappings(hs) == AutoMap(hs, EmptyMap)

\* mappings["appName"] as a JavaScript condition
HasAppName(m) == "appName" \in DOMAIN m /\ Truthy(m["appName"])

\* row[mappings[field]] || ""
Mapped(row, m, field) ==
    IF field \in DOMAIN m /\ m[field] \in DOMAIN row THEN row[m[field]] ELSE ""

\* the appData / formattedRow object: the ten canonical fields of a row
AppData(row, m) == [f \in FieldNames |-> Mapped(row, m, f)]

-----------------------------------------------------------------------------
(* Initial state: the useState initial values *)

NoFlight == [kind |-> "none"]

NoWebhookData == [built |-> FALSE]

\* importResult before any import: {}
NoResult ==
    [set |-> FALSE, success |-> FALSE, message |-> "", analyzed |-> 0,
     duplicatesFound |-> 0, errors |-> <<>>, webhookSuccess |-> FALSE]

\* searchParams.get("recordID"): "" stands for null
RecordIds == {"", "rec1", "rec2"}

Init ==
    /\ file = FileNone
    /\ reading = {}
    /\ headers = <<>>
    /\ mappings = EmptyMap
    /\ step = "upload"
    /\ data = <<>>
    /\ duplicateMatchFields = [f \in FieldNames |-> f = "appName"]
    /\ bulkDuplicateAction = "keepFirst"
    /\ csvDuplicates = <<>>
    /\ csvDuplicateResolutions = EmptyMap
    /\ duplicates = <<>>
    /\ duplicateResolutions = <<>>
    /\ invalidData = <<>>
    /\ importResult = NoResult
    /\ isLoading = FALSE
    /\ env \in [recordId : RecordIds, configured : BOOLEAN]
    /\ flight = NoFlight
    /\ webhookData = NoWebhookData

-----------------------------------------------------------------------------
(* Intra-file duplicate grouping: checkForCsvDuplicates *)

\* Object.entries(duplicateMatchFields).filter(selected).map(field)
RECURSIVE SelectFrom(_, _)
SelectFrom(order, mf) ==
    IF order = <<>> THEN <<>>
    ELSE IF mf[Head(order)] THEN <<Head(order)>> \o SelectFrom(Tail(order), mf)
         ELSE SelectFrom(Tail(order), mf)

selectedMatchFields(mf) == SelectFrom(FieldOrder, mf)

\* parts.join(sep)
RECURSIVE Join(_, _)
Join(parts, sep) ==
    IF parts = <<>> THEN ""
    ELSE IF Len(parts) = 1 THEN parts[1]
         ELSE parts[1] \o sep \o Join(Tail(parts), sep)

\* selectedMatchFields.map(field => `${field}:${value}`).join('|')
RECURSIVE KeyParts(_, _)
KeyParts(appData, sel) ==
    IF sel = <<>> THEN <<>>
    ELSE <<Head(sel) \o ":" \o appData[Head(sel)]>> \o KeyParts(appData, Tail(sel))

CompositeKey(appData, sel) == Join(KeyParts(appData, sel), "|")

\* position of key among the groups, 0 when it is new
GroupIndex(groups, key) ==
    IF \E i \in DOMAIN groups : groups[i].key = key
    THEN CHOOSE i \in DOMAIN groups : groups[i].key = key
    ELSE 0

\* data.forEach((row, index) => duplicateGroups[key].push(appData)); the
\* groups are kept in the order their keys were first seen (Object.entries)
RECURSIVE GroupRows(_, _, _, _, _)
GroupRows(d, m, sel, i, groups) ==
    IF i > Len(d) THEN groups
    ELSE LET appData == AppData(d[i], m)
             key     == CompositeKey(appData, sel)
             rec     == [appData |-> appData, _originalIndex |-> i - 1]
             at      == GroupIndex(groups, key)
             next    == IF at = 0
                        THEN Append(groups, [key |-> key, records |-> <<rec>>,
                                             matchedOn |-> sel])
                        ELSE [groups EXCEPT ![at].records = Append(@, rec)]
         IN  GroupRows(d, m, sel, i + 1, next)

\* Object.entries(duplicateGroups).forEach: keep the groups with records.length > 1
csvDuplicatesFound(d, m, sel) ==
    SelectSeq(GroupRows(d, m, sel, 1, <<>>), LAMBDA g : Len(g.records) > 1)

FirstIndex(group) == group.records[1]._originalIndex
LastIndex(group) == group.records[Len(group.records)]._originalIndex

\* the selectedIndex an action gives a group when no earlier choice is kept
ActionIndex(action, group) ==
    IF action = "keepFirst" THEN FirstIndex(group)
    ELSE IF action = "keepLast" THEN LastIndex(group)
    ELSE FirstIndex(group)

NoMergeFields == [f \in {} |-> 0]

Resolution(action, selectedIndex) ==
    [action |-> action, selectedIndex |-> selectedIndex, mergeFields |-> NoMergeFields]

GroupKeys(groups) == {groups[i].key : i \in DOMAIN groups}

GroupOf(groups, key) == groups[GroupIndex(groups, key)]

\* initialResolutions: every found group gets the bulk action
InitialCsvResolutions(groups, bulk) ==
    [k \in GroupKeys(groups) |->
        Resolution(bulk, ActionIndex(bulk, GroupOf(groups, k)))]

\* a checkForCsvDuplicates that never initialises the resolutions
checkForCsvDuplicatesKeepingResolutions(d, m, mf, bulk, oldRes) ==
    LET sel == selectedMatchFields(mf)
    IN  IF Len(sel) = 0
        THEN [groups |-> <<>>, res |-> EmptyMap]
        ELSE [groups |-> csvDuplicatesFound(d, m, sel), res |-> oldRes]

\* checkForCsvDuplicates: the csvDuplicates and csvDuplicateResolutions it leaves
checkForCsvDuplicates(d, m, mf, bulk, oldRes) ==
    LET sel == selectedMatchFields(mf)
    IN  IF Len(sel) = 0
        THEN [groups |-> <<>>, res |-> EmptyMap]
        ELSE LET found == csvDuplicatesFound(d, m, sel)
             IN  [groups |-> found,
                  res    |-> IF Len(found) > 0
                             THEN InitialCsvResolutions(found, bulk)
                             ELSE oldRes]

\* the useEffect on [data, mappings, step, getMatchFieldsKey(duplicateMatchFields)]:
\* it runs after the handler when one of them changed, on the new state
CsvDuplicatesEffect(changed) ==
    IF changed /\ step' = "csvDuplicates" /\ Len(data') > 0 /\ HasAppName(mappings')
    THEN LET r == checkForCsvDuplicates(data', mappings', duplicateMatchFields',
                                        bulkDuplicateAction', csvDuplicateResolutions)
         IN  /\ csvDuplicates' = r.groups
             /\ csvDuplicateResolutions' = r.res
    ELSE UNCHANGED <<csvDuplicates, csvDuplicateResolutions>>

-----------------------------------------------------------------------------
(* Upload and mapping steps *)

remoteVars == <<duplicates, duplicateResolutions, invalidData, importResult,
                isLoading, env, flight, webhookData>>

csvVars == <<duplicateMatchFields, bulkDuplicateAction, csvDuplicates,
             csvDuplicateResolutions>>

\* handleFileChange: the file input of the upload step
handleFileChange(f) ==
    /\ step = "upload"
    /\ file' = f
    /\ reading' = reading \cup {f}
    /\ UNCHANGED <<headers, mappings, step, data>>
    /\ UNCHANGED csvVars
    /\ UNCHANGED remoteVars

\* reader.onload of parseCSV: fires whenever the read completes, whatever the
\* wizard is doing by then
parseCSV(f) ==
    /\ f \in reading
    /\ reading' = reading \ {f}
    /\ headers' = f.headers
    /\ mappings' = initialMappings(f.headers)
    /\ data' = ParsedData(f)
    /\ step' = "mapping"
    /\ UNCHANGED <<file, duplicateMatchFields, bulkDuplicateAction>>
    /\ UNCHANGED remoteVars
    /\ CsvDuplicatesEffect(TRUE)

\* MappingChanged without the removal of the header's previous entries
MappingChangedNoRemove(prev, header, value) == Put(prev, value, header)

\* the mappings handleMappingChange(header, value) produces from prev
MappingChanged(prev, header, value) ==
    Put(Without(prev, {k \in DOMAIN prev : prev[k] = header}), value, header)

\* the Select of one header offers the ten fields and custom_<header>
MappingChoices(header) == FieldNames \cup {CustomKey(header)}

handleMappingChange(header, value) ==
    /\ step = "mapping"
    /\ header \in SeqToSet(headers)
    /\ value \in MappingChoices(header)
    /\ mappings' = MappingChanged(mappings, header, value)
    /\ UNCHANGED <<file, reading, headers, step, data>>
    /\ UNCHANGED <<duplicateMatchFields, bulkDuplicateAction>>
    /\ UNCHANGED remoteVars
    /\ CsvDuplicatesEffect(TRUE)

\* the Next button is disabled
NextDisabled ==
    \/ step = "upload" /\ file = FileNone
    \/ step = "mapping" /\ ~HasAppName(mappings)
    \/ isLoading

\* handleNextStep, case "upload"
NextFromUpload ==
    /\ ~NextDisabled
    /\ step = "upload"
    /\ step' = "mapping"
    /\ UNCHANGED <<file, reading, headers, mappings, data>>
    /\ UNCHANGED <<duplicateMatchFields, bulkDuplicateAction>>
    /\ UNCHANGED remoteVars
    /\ CsvDuplicatesEffect(TRUE)

\* handleNextStep, case "mapping"
NextFromMapping ==
    /\ ~NextDisabled
    /\ step = "mapping"
    /\ HasAppName(mappings)
    /\ step' = "csvDuplicates"
    /\ UNCHANGED <<file, reading, headers, mappings, data>>
    /\ UNCHANGED <<duplicateMatchFields, bulkDuplicateAction>>
    /\ UNCHANGED remoteVars
    /\ CsvDuplicatesEffect(TRUE)

\* handleNextStep, case "csvDuplicates"
NextFromCsvDuplicates ==
    /\ ~NextDisabled
    /\ step = "csvDuplicates"
    /\ step' = "validation"
    /\ UNCHANGED <<file, reading, headers, mappings, data>>
    /\ UNCHANGED <<duplicateMatchFields, bulkDuplicateAction>>
    /\ UNCHANGED remoteVars
    /\ CsvDuplicatesEffect(TRUE)

PreviousStep(s) ==
    CASE s = "mapping"       -> "upload"
      [] s = "csvDuplicates" -> "mapping"
      [] s = "validation"    -> "csvDuplicates"
      [] s = "duplicates"    -> "validation"
      [] s = "import"        -> "duplicates"
      [] OTHER               -> s

\* the Back button: rendered off the upload step, disabled while loading
Back ==
    /\ step # "upload"
    /\ ~isLoading
    /\ step' = PreviousStep(step)
    /\ UNCHANGED <<file, reading, headers, mappings, data>>
    /\ UNCHANGED <<duplicateMatchFields, bulkDuplicateAction>>
    /\ UNCHANGED remoteVars
    /\ CsvDuplicatesEffect(TRUE)

-----------------------------------------------------------------------------
(* The duplicate-resolution controls of the csvDuplicates step *)

\* handleMatchFieldChange through a match checkbox, which toggles the field
handleMatchFieldChange(field) ==
    /\ step = "csvDuplicates"
    /\ duplicateMatchFields' = [duplicateMatchFields EXCEPT ![field] = ~@]
    /\ UNCHANGED <<file, reading, headers, mappings, step, data, bulkDuplicateAction>>
    /\ UNCHANGED remoteVars
    /\ CsvDuplicatesEffect(TRUE)

DuplicateActions == {"keepFirst", "keepLast", "merge", "skip"}

\* the resolutions the bulk Select leaves for the current groups
BulkResolutions(value, groups, res) ==
    IF value # "merge"
    THEN [k \in DOMAIN res \cup GroupKeys(groups) |->
            IF k \in GroupKeys(groups)
            THEN Resolution(value, ActionIndex(value, GroupOf(groups, k)))
            ELSE res[k]]
    ELSE res

\* onValueChange of the bulk action Select
BulkAction(value) ==
    /\ step = "csvDuplicates"
    /\ value \in DuplicateActions
    /\ bulkDuplicateAction' = value
    /\ csvDuplicateResolutions' = BulkResolutions(value, csvDuplicates, csvDuplicateResolutions)
    /\ UNCHANGED <<file, reading, headers, mappings, step, data,
                   duplicateMatchFields, csvDuplicates>>
    /\ UNCHANGED remoteVars

\* prev[group.key]?.selectedIndex || group.records[0]._originalIndex
KeptIndex(res, group) ==
    IF group.key \in DOMAIN res /\ res[group.key].selectedIndex # 0
    THEN res[group.key].selectedIndex
    ELSE FirstIndex(group)

\* GroupResolution with the members of keepFirst and keepLast exchanged
GroupResolutionSwapped(value, group, res) ==
    Resolution(value,
               IF value = "keepFirst" THEN LastIndex(group)
               ELSE IF value = "keepLast" THEN FirstIndex(group)
               ELSE KeptIndex(res, group))

\* the resolution the per-group Select stores for a group
GroupResolution(value, group, res) ==
    Resolution(value,
               IF value = "keepFirst" THEN FirstIndex(group)
               ELSE IF value = "keepLast" THEN LastIndex(group)
               ELSE KeptIndex(res, group))

\* onValueChange of the Select of one group
GroupAction(g, value) ==
    /\ step = "csvDuplicates"
    /\ g \in DOMAIN csvDuplicates
    /\ value \in DuplicateActions
    /\ csvDuplicateResolutions' =
          Put(csvDuplicateResolutions, csvDuplicates[g].key,
              GroupResolution(value, csvDuplicates[g], csvDuplicateResolutions))
    /\ UNCHANGED <<file, reading, headers, mappings, step, data,
                   duplicateMatchFields, bulkDuplicateAction, csvDuplicates>>
    /\ UNCHANGED remoteVars

ActionOf(res, key) == IF key \in DOMAIN res THEN res[key].action ELSE "none"

\* onValueChange of the RadioGroup of one record: rendered unless the group
\* merges, disabled when the group is skipped
SelectRecord(g, r) ==
    /\ step = "csvDuplicates"
    /\ g \in DOMAIN csvDuplicates
    /\ r \in DOMAIN csvDuplicates[g].records
    /\ LET key == csvDuplicates[g].key
       IN  /\ ActionOf(csvDuplicateResolutions, key) \notin {"merge", "skip"}
           /\ key \in DOMAIN csvDuplicateResolutions
           /\ csvDuplicateResolutions' =
                 [csvDuplicateResolutions EXCEPT
                    ![key].selectedIndex = csvDuplicates[g].records[r]._originalIndex]
    /\ UNCHANGED <<file, reading, headers, mappings, step, data,
                   duplicateMatchFields, bulkDuplicateAction, csvDuplicates>>
    /\ UNCHANGED remoteVars

\* onCheckedChange(true) of the merge Checkbox of field in record r of group g
\* (recordIndex is the 0-based position in the group)
MergeCheckbox(g, field, r) ==
    /\ step = "csvDuplicates"
    /\ g \in DOMAIN csvDuplicates
    /\ r \in DOMAIN csvDuplicates[g].records
    /\ field \in FieldNames
    /\ LET key == csvDuplicates[g].key
       IN  /\ ActionOf(csvDuplicateResolutions, key) = "merge"
           /\ csvDuplicateResolutions' =
                 [csvDuplicateResolutions EXCEPT
                    ![key].mergeFields = Put(@, field, r - 1)]
    /\ UNCHANGED <<file, reading, headers, mappings, step, data,
                   duplicateMatchFields, bulkDuplicateAction, csvDuplicates>>
    /\ UNCHANGED remoteVars

-----------------------------------------------------------------------------
(* Column mapping explored on its own: every header list up to MaxHeaders  *)
(* over HeaderPool, parsed and then remapped in every way the mapping step *)
(* offers.                                                                 *)

HeaderPool == {"App Name", "app name", "Notes", ""}

MappingFiles ==
    {[name |-> "columns.csv", headers |-> hs, lines |-> <<>>] :
        hs \in SeqsUpTo(HeaderPool, MaxHeaders) \ {<<>>}}

\* the choices of the header's Select that are explored
MappingTargets(header) == {"appName", "appId", CustomKey(header)}

InitMapping == Init /\ env = [recordId |-> "", configured |-> TRUE]

NextMapping ==
    \/ \E f \in MappingFiles : reading = {} /\ handleFileChange(f)
    \/ \E f \in reading : parseCSV(f)
    \/ \E h \in SeqToSet(headers) : \E v \in MappingTargets(h) : handleMappingChange(h, v)
    \/ NextFromUpload

SpecMapping == InitMapping /\ [][NextMapping]_vars

\* the mapping entries whose value is header h
SlotsOf(m, h) == {k \in DOMAIN m : m[k] = h}

\* C6: once parseCSV has mapped the columns, and after every later
\* handleMappingChange, each header of the file is the value of exactly one
\* mapping entry.
C6_EveryHeaderHasExactlyOneSlot ==
    \A h \in SeqToSet(headers) : Cardinality(SlotsOf(mappings, h)) = 1

\* C7: in every state reached by parseCSV and handleMappingChange calls, no
\* header is the value of more than one mapping entry.
C7_NoHeaderMappedTwice ==
    \A k1, k2 \in DOMAIN mappings : mappings[k1] = mappings[k2] => k1 = k2

\* C7 witness: two headers are mapped and one of them sits under a key that
\* parseCSV would not have given it, so handleMappingChange has moved it.
C7_Witness ==
    /\ step = "mapping"
    /\ Cardinality(DOMAIN mappings) = 2
    /\ \E k \in DOMAIN mappings : AutoKey(mappings[k]) # k

-----------------------------------------------------------------------------
(* Duplicate grouping explored on its own: every file of up to             *)
(* MaxGroupRows rows whose two cells range over GroupValues, grouped under *)
(* every selection of the two match fields.                                *)

MaxGroupRows == 2

\* cell values, among them values that hold the ':' and '|' of the key
GroupValues == {"", "a", "b|appId:", "a|appId:b"}

GroupingFiles ==
    {[name |-> "rows.csv", headers |-> <<"App Name", "App ID">>, lines |-> ls] :
        ls \in SeqsUpTo(GroupValues \X GroupValues, MaxGroupRows) \ {<<>>}}

GroupingMatchFields == {"appName", "appId"}

NextGrouping ==
    \/ \E f \in GroupingFiles : reading = {} /\ handleFileChange(f)
    \/ \E f \in reading : parseCSV(f)
    \/ NextFromUpload
    \/ NextFromMapping
    \/ \E field \in GroupingMatchFields : handleMatchFieldChange(field)

SpecGrouping == InitMapping /\ [][NextGrouping]_vars

\* the rows with original indices i and j are members of one emitted group
InSameGroup(i, j) ==
    \E g \in DOMAIN csvDuplicates :
        /\ \E r \in DOMAIN csvDuplicates[g].records :
              csvDuplicates[g].records[r]._originalIndex = i
        /\ \E r \in DOMAIN csvDuplicates[g].records :
              csvDuplicates[g].records[r]._originalIndex = j

\* the rows with original indices i and j agree on every selected match field
EqualOnSelected(i, j) ==
    \A f \in FieldNames :
        duplicateMatchFields[f] =>
            Mapped(data[i + 1], mappings, f) = Mapped(data[j + 1], mappings, f)

\* checkForCsvDuplicates has run on the current rows with a non-empty selection
Grouped ==
    /\ step = "csvDuplicates"
    /\ Len(data) > 0
    /\ HasAppName(mappings)
    /\ selectedMatchFields(duplicateMatchFields) # <<>>

\* C5: under a non-empty selection of match fields, two rows are in the same
\* group exactly when their mapped values agree on every selected field, and
\* every emitted group has at least two members.
C5_GroupedIffEqualOnSelected ==
    Grouped =>
        /\ \A i, j \in 0..(Len(data) - 1) :
              i # j => (InSameGroup(i, j) <=> EqualOnSelected(i, j))
        /\ \A g \in DOMAIN csvDuplicates : Len(csvDuplicates[g].records) >= 2

-----------------------------------------------------------------------------
(* Validation and the remote (Airtable) duplicate lookup *)

\* a validation that accepts a row without appName when it has an appId
InvalidRowsUnlessIdentified(d, m) ==
    SelectSeq([i \in DOMAIN d |->
                  [row |-> d[i],
                   isValid |-> Truthy(Mapped(d[i], m, "appName"))
                                  \/ Truthy(Mapped(d[i], m, "appId")),
                   errors |-> [appName |-> <<"App name is required">>]]],
              LAMBDA r : ~r.isValid)

\* validateData: the rows appSchema rejects (appName is the only constraint)
InvalidRows(d, m) ==
    SelectSeq([i \in DOMAIN d |->
                  [row |-> d[i], isValid |-> Truthy(Mapped(d[i], m, "appName")),
                   errors |-> [appName |-> <<"App name is required">>]]],
              LAMBDA r : ~r.isValid)

\* the fields of an AppRecord that findAppDuplicates returns, besides id
RemoteFields == FieldNames \ {"country"}

\* The records of the Airtable table: id, the nine fields, and the lookup
\* field "Campaign ID (from Sequence Name)".
AirtableTable ==
    << [id |-> "recA", campaign |-> "rec1", appName |-> "a", appId |-> "1",
        developer |-> "dev", category |-> "", companyWebsite |-> "www.Old.io",
        companyLinkedinUrl |-> "", sensorTowerId |-> "", googlePlayId |-> "",
        developerId |-> ""],
       [id |-> "recB", campaign |-> "rec1,rec2", appName |-> "a", appId |-> "9",
        developer |-> "", category |-> "", companyWebsite |-> "",
        companyLinkedinUrl |-> "", sensorTowerId |-> "", googlePlayId |-> "",
        developerId |-> ""],
       [id |-> "recC", campaign |-> "rec2", appName |-> "c", appId |-> "2",
        developer |-> "", category |-> "", companyWebsite |-> "",
        companyLinkedinUrl |-> "", sensorTowerId |-> "", googlePlayId |-> "",
        developerId |-> ""] >>

\* FIND(sub, s) > 0
Contains(s, sub) ==
    \E i \in 1..(Len(s) - Len(sub) + 1) : SubSeq(s, i, i + Len(sub) - 1) = sub

\* the fields findAppDuplicates builds a match condition for
matchConditions(appData) ==
    {f \in {"appName", "appId", "googlePlayId", "sensorTowerId"} : Truthy(appData[f])}

\* records.map(record => ({id, appName, ...})): the AppRecord of a table row
AppRecord(rec) == [k \in RemoteFields \cup {"id"} |-> rec[k]]

\* findAppDuplicates(appData, campaignId) when the query succeeds:
\* AND(FIND(campaignId, {Campaign ID}), OR({field} = value, ...))
findAppDuplicates(appData, campaignId) ==
    IF ~Truthy(campaignId) THEN <<>>
    ELSE IF matchConditions(appData) = {} THEN <<>>
    ELSE LET hit(rec) == /\ Contains(rec.campaign, campaignId)
                         /\ \E f \in matchConditions(appData) : rec[f] = appData[f]
             hits == SelectSeq(AirtableTable, hit)
         IN  [i \in DOMAIN hits |-> AppRecord(hits[i])]

\* the group of csvDuplicates that holds the row with original index idx
\* (csvDuplicates.find), 0 when there is none
FindGroup(groups, idx) ==
    LET hits == {g \in DOMAIN groups :
                    \E r \in DOMAIN groups[g].records :
                        groups[g].records[r]._originalIndex = idx}
    IN  IF hits = {} THEN 0 ELSE CHOOSE g \in hits : \A h \in hits : g <= h

\* a filter of deduplicatedData that collapses no group
DeduplicatedAll(groups, res, idx) == TRUE

\* checkForDuplicates, the filter of deduplicatedData: row idx is kept
Deduplicated(groups, res, idx) ==
    LET g == FindGroup(groups, idx)
    IN  IF g = 0 THEN TRUE
        ELSE IF groups[g].key \notin DOMAIN res THEN TRUE
        ELSE IF res[groups[g].key].action = "merge"
             THEN FirstIndex(groups[g]) = idx
             ELSE res[groups[g].key].selectedIndex = idx

\* deduplicatedData as the original indices of its rows, in row order
RECURSIVE IndicesIn(_, _, _)
IndicesIn(kept, i, n) ==
    IF i >= n THEN <<>>
    ELSE IF i \in kept THEN <<i>> \o IndicesIn(kept, i + 1, n)
         ELSE IndicesIn(kept, i + 1, n)

deduplicatedData(d, groups, res) ==
    IndicesIn({i \in 0..(Len(d) - 1) : Deduplicated(groups, res, i)}, 0, Len(d))

\* the matchedFields of one lookup result
matchedFields(appData, potentialDuplicates) ==
    SelectSeq(<<"appName", "appId", "googlePlayId", "sensorTowerId">>,
              LAMBDA f : \E i \in DOMAIN potentialDuplicates :
                            potentialDuplicates[i][f] = appData[f])

FieldResolutionsExisting == [f \in FieldNames |-> "existing"]

\* ids of the records of the matches, in order of first occurrence: the key
\* order of initialResolutions
RECURSIVE MatchIds(_, _)
MatchIds(recs, seen) ==
    IF recs = <<>> THEN seen
    ELSE MatchIds(Tail(recs),
                  IF \E i \in DOMAIN seen : seen[i] = Head(recs).id
                  THEN seen ELSE Append(seen, Head(recs).id))

RECURSIVE AllMatches(_)
AllMatches(found) ==
    IF found = <<>> THEN <<>> ELSE Head(found).duplicates \o AllMatches(Tail(found))

\* initialResolutions with every field resolved to imported
InitialResolutionsImported(found) ==
    LET ids == MatchIds(AllMatches(found), <<>>)
    IN  [i \in DOMAIN ids |->
            [id |-> ids[i], action |-> "keep",
             fieldResolutions |-> [f \in FieldNames |-> "imported"]]]

\* initialResolutions of checkForDuplicates: an ordered map id -> resolution
InitialResolutions(found) ==
    LET ids == MatchIds(AllMatches(found), <<>>)
    IN  [i \in DOMAIN ids |->
            [id |-> ids[i], action |-> "keep",
             fieldResolutions |-> FieldResolutionsExisting]]

\* the state checkForDuplicates leaves once the loop is over, and the step
\* handleNextStep moves to
CheckCompleted(found) ==
    /\ duplicates' = found
    /\ duplicateResolutions' =
          IF Len(found) > 0 THEN InitialResolutions(found) ELSE duplicateResolutions
    /\ step' = IF Len(found) > 0 THEN "duplicates" ELSE "import"
    /\ isLoading' = FALSE
    /\ flight' = NoFlight

\* a test of the record id that never skips the check
NoRecordIdIgnored(recordId) == FALSE

\* if (!recordId): checkForDuplicates returns false before any lookup
NoRecordId(recordId) == ~Truthy(recordId)

\* handleNextStep, case "validation": validateData, then checkForDuplicates up
\* to its first await
NextFromValidation ==
    /\ ~NextDisabled
    /\ step = "validation"
    /\ invalidData' = InvalidRows(data, mappings)
    /\ UNCHANGED <<file, reading, headers, mappings, data, importResult, env,
                   webhookData, duplicateMatchFields, bulkDuplicateAction>>
    /\ IF Len(invalidData') > 0
       THEN UNCHANGED <<step, duplicates, duplicateResolutions, isLoading, flight>>
       ELSE IF NoRecordId(env.recordId)
       THEN /\ step' = "import"
            /\ UNCHANGED <<duplicates, duplicateResolutions, isLoading, flight>>
       ELSE LET todo == deduplicatedData(data, csvDuplicates, csvDuplicateResolutions)
            IN  IF todo = <<>>
                THEN CheckCompleted(<<>>)
                ELSE /\ flight' = [kind |-> "check",
                                   deduplicatedData |->
                                      [i \in DOMAIN todo |->
                                          [_originalIndex |-> todo[i],
                                           appData |-> AppData(data[todo[i] + 1], mappings)]],
                                   row |-> 1,
                                   found |-> <<>>,
                                   failed |-> {}]
                     /\ isLoading' = TRUE
                     /\ UNCHANGED <<step, duplicates, duplicateResolutions>>
    /\ CsvDuplicatesEffect(TRUE)

\* how an awaited request can end
LookupOutcomes == {"ok", "throw"}

\* duplicatesFound after a lookup that throws drops what earlier rows found
LookupFoundReset(found, appData, recordId, outcome) ==
    LET dups == IF outcome = "ok" THEN findAppDuplicates(appData, recordId) ELSE <<>>
    IN  IF outcome = "throw" THEN <<>>
        ELSE IF Len(dups) > 0
        THEN Append(found, [importData |-> appData, duplicates |-> dups,
                            matchedOn |-> matchedFields(appData, dups)])
        ELSE found

\* duplicatesFound after the body of the loop for one row: the try pushes an
\* entry when the lookup returns records, the catch only logs
LookupFound(found, appData, recordId, outcome) ==
    LET dups == IF outcome = "ok" THEN findAppDuplicates(appData, recordId) ELSE <<>>
    IN  IF Len(dups) > 0
        THEN Append(found, [importData |-> appData, duplicates |-> dups,
                            matchedOn |-> matchedFields(appData, dups)])
        ELSE found

\* one `await findAppDuplicates(appData, recordId)` of the loop returns or
\* throws (initAirtable, its first statement, throws when the API key or the
\* base id is missing, which env.configured = FALSE stands for); after the
\* last one checkForDuplicates and handleNextStep run to their end; failed
\* holds the rows for which the catch of the loop has logged an error
LookupDone(outcome) ==
    /\ flight.kind = "check"
    /\ outcome \in LookupOutcomes
    /\ ~env.configured => outcome = "throw"
    /\ LET appData == flight.deduplicatedData[flight.row].appData
           found   == LookupFound(flight.found, appData, env.recordId, outcome)
       IN  IF flight.row < Len(flight.deduplicatedData)
           THEN /\ flight' = [flight EXCEPT !.row = @ + 1, !.found = found,
                                             !.failed = IF outcome = "throw"
                                                         THEN @ \cup {flight.row}
                                                         ELSE @]
                /\ UNCHANGED <<step, duplicates, duplicateResolutions, isLoading>>
           ELSE CheckCompleted(found)
    /\ UNCHANGED <<file, reading, headers, mappings, data, invalidData, importResult,
                   env, webhookData, duplicateMatchFields, bulkDuplicateAction>>
    /\ CsvDuplicatesEffect(TRUE)

RemoteActions == {"keep", "replace", "merge"}

\* ids of the matched records the duplicates step renders
MatchedRecordIds(dups) ==
    UNION {{dups[d].duplicates[r].id : r \in DOMAIN dups[d].duplicates} :
              d \in DOMAIN dups}

\* position of id in the ordered map, 0 when it has no entry
ResolutionIndex(res, id) ==
    IF \E i \in DOMAIN res : res[i].id = id
    THEN CHOOSE i \in DOMAIN res : res[i].id = id
    ELSE 0

\* the property name mappings[field] gives: "undefined" for an unmapped field
MappedKey(m, field) == IF field \in DOMAIN m THEN m[field] ELSE "undefined"

\* what reading a missing property gives
Undefined == "<undefined>"

\* obj[key], without any default
Property(obj, key) == IF key \in DOMAIN obj THEN obj[key] ELSE Undefined

\* data.findIndex(item => item[mappings["appName"]] === name): the position
\* of the first such row, 0 when there is none
FindByAppName(d, m, name) ==
    LET hits == {i \in DOMAIN d : Property(d[i], MappedKey(m, "appName")) = name}
    IN  IF hits = {} THEN 0 ELSE CHOOSE i \in hits : \A j \in hits : i <= j

\* the fields the validation table has an Input for
CorrectionFields == {"appName", "appId", "developer", "category"}

\* handleDataCorrection(index, field, value): onChange of an Input of the
\* validation step; the invalid row is written first, and the data row is
\* searched with the app name the invalid row has after that write
handleDataCorrection(index, field, value) ==
    /\ step = "validation"
    /\ index \in DOMAIN invalidData
    /\ field \in CorrectionFields
    /\ invalidData' = [invalidData EXCEPT
                          ![index].row = Put(@, MappedKey(mappings, field), value)]
    /\ LET dataIndex == FindByAppName(data, mappings,
                                      Property(invalidData'[index].row,
                                               MappedKey(mappings, "appName")))
       IN  data' = IF dataIndex # 0
                   THEN [data EXCEPT ![dataIndex] =
                                        Put(@, MappedKey(mappings, field), value)]
                   ELSE data
    /\ UNCHANGED <<file, reading, headers, mappings, step>>
    /\ UNCHANGED <<duplicateMatchFields, bulkDuplicateAction>>
    /\ UNCHANGED <<duplicates, duplicateResolutions, importResult, isLoading, env,
                   flight, webhookData>>
    /\ CsvDuplicatesEffect(TRUE)

\* handleDuplicateResolution(id, action): the RadioGroup of a matched record
handleDuplicateResolution(id, action) ==
    /\ step = "duplicates"
    /\ ~isLoading
    /\ \E d \in DOMAIN duplicates :
          \E r \in DOMAIN duplicates[d].duplicates : duplicates[d].duplicates[r].id = id
    /\ action \in RemoteActions
    /\ LET at == ResolutionIndex(duplicateResolutions, id)
       IN  duplicateResolutions' =
              IF at # 0
              THEN [duplicateResolutions EXCEPT ![at].action = action]
              ELSE Append(duplicateResolutions,
                          [id |-> id, action |-> action,
                           fieldResolutions |-> EmptyMap])
    /\ UNCHANGED <<file, reading, headers, mappings, step, data>>
    /\ UNCHANGED csvVars
    /\ UNCHANGED <<duplicates, invalidData, importResult, isLoading, env, flight,
                   webhookData>>

\* the values the field RadioGroup of the merge panel offers
FieldResolutions == {"existing", "imported"}

\* handleFieldResolution(id, field, resolution): the RadioGroup of one field in
\* the merge panel of a matched record, rendered while its action is merge
handleFieldResolution(id, field, resolution) ==
    /\ step = "duplicates"
    /\ ~isLoading
    /\ id \in MatchedRecordIds(duplicates)
    /\ field \in FieldNames
    /\ resolution \in FieldResolutions
    /\ LET at == ResolutionIndex(duplicateResolutions, id)
       IN  /\ at # 0
           /\ duplicateResolutions[at].action = "merge"
           /\ duplicateResolutions' =
                 [duplicateResolutions EXCEPT
                    ![at].fieldResolutions = Put(@, field, resolution)]
    /\ UNCHANGED <<file, reading, headers, mappings, step, data>>
    /\ UNCHANGED csvVars
    /\ UNCHANGED <<duplicates, invalidData, importResult, isLoading, env, flight,
                   webhookData>>

\* handleNextStep, case "duplicates"
NextFromDuplicates ==
    /\ ~NextDisabled
    /\ step = "duplicates"
    /\ step' = "import"
    /\ UNCHANGED <<file, reading, headers, mappings, data>>
    /\ UNCHANGED <<duplicateMatchFields, bulkDuplicateAction>>
    /\ UNCHANGED remoteVars
    /\ CsvDuplicatesEffect(TRUE)

-----------------------------------------------------------------------------
(* Finalization: handleImport *)

\* processImport(data, mappings, duplicateResolutions) when the server action
\* returns: rows are numbered from 1 in errors
processImport(d, m, res) ==
    LET bad == SelectSeq([i \in DOMAIN d |-> i],
                         LAMBDA i : ~Truthy(Mapped(d[i], m, "appName")))
    IN  IF Len(bad) > 0
        THEN [set |-> TRUE, success |-> FALSE,
              message |-> "Validation failed for some records",
              analyzed |-> Len(d), duplicatesFound |-> 0, errors |-> bad,
              webhookSuccess |-> FALSE]
        ELSE [set |-> TRUE, success |-> TRUE, message |-> "Successfully analyzed",
              analyzed |-> Len(d), duplicatesFound |-> Len(res), errors |-> <<>>,
              webhookSuccess |-> FALSE]

\* the importResult of the outer catch of handleImport
ImportFailed ==
    [set |-> TRUE, success |-> FALSE, message |-> "Import failed", analyzed |-> 0,
     duplicatesFound |-> 0, errors |-> <<0>>, webhookSuccess |-> FALSE]

\* a decision that turns to the last member of a group once an import result
\* is stored
KeepAfterResult(groups, res, idx) ==
    LET g == FindGroup(groups, idx)
    IN  IF g = 0 THEN TRUE
        ELSE IF importResult.set THEN LastIndex(groups[g]) = idx
        ELSE IF groups[g].key \notin DOMAIN res THEN FirstIndex(groups[g]) = idx
        ELSE res[groups[g].key].selectedIndex = idx

\* rowDecisions: row idx goes into keepIndices
Keep(groups, res, idx) ==
    LET g == FindGroup(groups, idx)
    IN  IF g = 0 THEN TRUE
        ELSE IF groups[g].key \notin DOMAIN res THEN FirstIndex(groups[g]) = idx
        ELSE res[groups[g].key].selectedIndex = idx

keepIndices(d, groups, res) ==
    IndicesIn({i \in 0..(Len(d) - 1) : Keep(groups, res, i)}, 0, Len(d))

\* field.replace('custom_', '') for a key that starts with custom_
CustomFieldName(key) == SubSeq(key, Len("custom_") + 1, Len(key))

CustomKeys(m) == {k \in DOMAIN m : startsWith(k, "custom_")}

\* custom_fields of a formatted record: custom field name -> cell of the row
\* (two keys cannot give one name: the name is the key without its prefix)
RowCustomFields(row, m) ==
    [n \in {CustomFieldName(k) : k \in CustomKeys(m)} |->
        LET k == CHOOSE k \in CustomKeys(m) : CustomFieldName(k) = n
        IN  IF m[k] \in DOMAIN row THEN row[m[k]] ELSE ""]

\* url.match(/^https?:\/\//i)
HasProtocol(url) ==
    \/ startsWith(toLowerCase(url), "http://")
    \/ startsWith(toLowerCase(url), "https://")

\* the url after its scheme and "//"
AfterProtocol(url) ==
    IF startsWith(toLowerCase(url), "http://") THEN SubSeq(url, 8, Len(url))
    ELSE SubSeq(url, 9, Len(url))

\* the longest prefix of str without a character of stops
RECURSIVE UpTo(_, _)
UpTo(str, stops) ==
    IF str = "" \/ SubSeq(str, 1, 1) \in stops THEN ""
    ELSE SubSeq(str, 1, 1) \o UpTo(SubSeq(str, 2, Len(str)), stops)

\* str.replace(/^www\./i, '')
StripWww(str) ==
    IF startsWith(toLowerCase(str), "www.") THEN SubSeq(str, 5, Len(str)) ELSE str

\* str has a character of chars
HasChar(str, chars) == \E i \in 1..Len(str) : SubSeq(str, i, i) \in chars

\* extractRootDomain(url), for urls that are empty or begin (after an optional
\* scheme) with a host, without userinfo: new URL() ends the host at the
\* first of / ? # : and rejects a host with a space, for which the catch
\* branch takes what /(?:https?:\/\/)?(?:www\.)?([^\/]+)/i captures
extractRootDomain(url) ==
    IF url = "" THEN ""
    ELSE LET full == IF HasProtocol(url) THEN url ELSE "https://" \o url
             hostname == UpTo(AfterProtocol(full), {"/", "?", "#", ":"})
         IN  IF ~HasChar(hostname, {" "})
             THEN StripWww(toLowerCase(hostname))
             ELSE toLowerCase(UpTo(StripWww(AfterProtocol(full)), {"/"}))

\* formattedRecords: one record per kept index, in row order; customfields is
\* the bag, absent from the record in the code when the bag is empty
formattedRecords(d, m, groups, res) ==
    LET kept == keepIndices(d, groups, res)
    IN  [i \in DOMAIN kept |->
            [appData |-> AppData(d[kept[i] + 1], m),
             rootDomain |-> extractRootDomain(AppData(d[kept[i] + 1], m).companyWebsite),
             customfields |-> RowCustomFields(d[kept[i] + 1], m),
             _originalIndex |-> kept[i]]]

\* recordsWithAirtableStatus: the record matches the importData of a stored match
inAirtable(record, dups) ==
    \E i \in DOMAIN dups :
        LET importData == dups[i].importData
        IN  \/ importData.appName = record.appData.appName
            \/ Truthy(record.appData.appId) /\ importData.appId = record.appData.appId
            \/ Truthy(record.appData.googlePlayId)
                  /\ importData.googlePlayId = record.appData.googlePlayId
            \/ Truthy(record.appData.sensorTowerId)
                  /\ importData.sensorTowerId = record.appData.sensorTowerId

\* duplicates.find(d => d.duplicates.some(dup => dup.id === id)), 0 when undefined
FindDuplicate(dups, id) ==
    LET hits == {i \in DOMAIN dups :
                    \E r \in DOMAIN dups[i].duplicates : dups[i].duplicates[r].id = id}
    IN  IF hits = {} THEN 0 ELSE CHOOSE i \in hits : \A j \in hits : i <= j

\* duplicate?.duplicates.find(dup => dup.id === id), as a list of none or one
MatchingDup(dups, id) ==
    IF FindDuplicate(dups, id) = 0 THEN <<>>
    ELSE LET ds == dups[FindDuplicate(dups, id)].duplicates
         IN  <<ds[CHOOSE r \in DOMAIN ds :
                      ds[r].id = id /\ \A q \in DOMAIN ds : ds[q].id = id => r <= q]>>

\* duplicate?.importData, as a list of none or one
ImportedData(dups, id) ==
    IF FindDuplicate(dups, id) = 0 THEN <<>>
    ELSE <<dups[FindDuplicate(dups, id)].importData>>

\* custom_fields of an unchanged or updated record: header -> importedData[header] || ""
ImportedCustomFields(imported, m) ==
    IF imported = <<>> THEN EmptyMap
    ELSE [h \in {m[k] : k \in CustomKeys(m)} |->
             IF h \in DOMAIN imported[1] THEN imported[1][h] ELSE ""]

\* calculateFinalData that takes the imported value whenever it is chosen
calculateFinalDataNoFallback(existing, imported, resolution) ==
    IF existing = <<>> \/ imported = <<>> THEN <<>>
    ELSE IF resolution.action = "keep" THEN existing
    ELSE IF resolution.action = "replace" THEN imported
    ELSE LET taken == {f \in DOMAIN resolution.fieldResolutions :
                          resolution.fieldResolutions[f] = "imported"}
         IN  <<[k \in DOMAIN existing[1] \cup taken |->
                  IF k \in taken THEN imported[1][k] ELSE existing[1][k]]>>

\* calculateFinalData, as a list of none (null) or one
calculateFinalData(existing, imported, resolution) ==
    IF existing = <<>> \/ imported = <<>> THEN <<>>
    ELSE IF resolution.action = "keep" THEN existing
    ELSE IF resolution.action = "replace" THEN imported
    ELSE LET taken == {f \in DOMAIN resolution.fieldResolutions :
                          /\ resolution.fieldResolutions[f] = "imported"
                          /\ Truthy(imported[1][f])}
         IN  <<[k \in DOMAIN existing[1] \cup taken |->
                  IF k \in taken THEN imported[1][k] ELSE existing[1][k]]>>

\* obj.rootDomain = extractRootDomain(obj.companyWebsite), done when the
\* website is not empty
WithRootDomain(obj) ==
    IF "companyWebsite" \in DOMAIN obj /\ Truthy(obj.companyWebsite)
    THEN Put(obj, "rootDomain", extractRootDomain(obj.companyWebsite))
    ELSE obj

\* obj.customfields = bag when the bag has keys, undefined (no property in
\* the JSON) otherwise
WithCustomFields(obj, bag) ==
    IF DOMAIN bag # {} THEN Put(obj, "customfields", bag)
    ELSE Without(obj, {"customfields"})

\* position in the group of the record duplicates.find(...).duplicates.find(...)
\* returns for id
MatchingDupIndex(group, id) ==
    CHOOSE r \in DOMAIN group.duplicates :
        /\ group.duplicates[r].id = id
        /\ \A q \in DOMAIN group.duplicates : group.duplicates[q].id = id => r <= q

\* what handleImport writes into the objects held by the duplicates state for
\* one resolution: keep sets rootDomain on the matched record, replace makes
\* the importData the finalData and sets rootDomain and customfields on it,
\* merge writes to a copy
TouchDuplicates(dups, resolution, m) ==
    LET g == FindDuplicate(dups, resolution.id)
    IN  IF g = 0 THEN dups
        ELSE IF resolution.action = "keep"
        THEN [dups EXCEPT ![g].duplicates[MatchingDupIndex(dups[g], resolution.id)] =
                              WithRootDomain(@)]
        ELSE IF resolution.action = "replace"
        THEN [dups EXCEPT ![g].importData =
                 WithCustomFields(WithRootDomain(@),
                                  ImportedCustomFields(<<dups[g].importData>>, m))]
        ELSE dups

\* the duplicates state after unchangedIds.map(...) and updatedIds.map(...)
RECURSIVE TouchAll(_, _, _)
TouchAll(dups, resolutions, m) ==
    IF resolutions = <<>> THEN dups
    ELSE TouchAll(TouchDuplicates(dups, Head(resolutions), m), Tail(resolutions), m)

MutatedDuplicates(dups, res, m) ==
    TouchAll(dups,
             SelectSeq(res, LAMBDA r : r.action = "keep")
                \o SelectSeq(res, LAMBDA r : r.action \in {"replace", "merge"}),
             m)

\* { ...matchingDup, customfields } of an unchanged entry
UnchangedData(matchingDup, bag) ==
    WithCustomFields(IF matchingDup = <<>> THEN EmptyMap ELSE matchingDup[1], bag)

\* unchangedApps: one entry per resolution with action keep; dups are the
\* duplicates as handleImport leaves them
unchangedApps(dups, res, m) ==
    LET ids == SelectSeq(res, LAMBDA r : r.action = "keep")
    IN  [i \in DOMAIN ids |->
            [id |-> ids[i].id,
             data |-> UnchangedData(MatchingDup(dups, ids[i].id),
                                    ImportedCustomFields(ImportedData(dups, ids[i].id), m))]]

\* the final data of an updated entry when a rootDomain that the copied record
\* already carries is left as it is
FinalDataKeepsRootDomain(matchingDup, importedData, resolution, m) ==
    LET final == calculateFinalData(matchingDup, importedData, resolution)
    IN  IF final = <<>> THEN <<>>
        ELSE <<WithCustomFields(IF "rootDomain" \in DOMAIN final[1]
                                THEN final[1] ELSE WithRootDomain(final[1]),
                                ImportedCustomFields(importedData, m))>>

\* finalData of an updated entry with rootDomain and customfields set, as a
\* list of none (null) or one
FinalData(matchingDup, importedData, resolution, m) ==
    LET final == calculateFinalData(matchingDup, importedData, resolution)
    IN  IF final = <<>> THEN <<>>
        ELSE <<WithCustomFields(WithRootDomain(final[1]),
                                ImportedCustomFields(importedData, m))>>

\* updatedApps: one entry per resolution with action replace or merge; dups
\* are the duplicates as handleImport leaves them (existingData, newData and
\* the finalData of replace are references to their objects)
updatedApps(dups, res, m) ==
    LET ids == SelectSeq(res, LAMBDA r : r.action \in {"replace", "merge"})
    IN  [i \in DOMAIN ids |->
            [id |-> ids[i].id,
             existingData |-> MatchingDup(dups, ids[i].id),
             newData |-> ImportedData(dups, ids[i].id),
             action |-> ids[i].action,
             fieldResolutions |-> IF ids[i].action = "merge"
                                  THEN <<ids[i].fieldResolutions>> ELSE <<>>,
             finalData |-> FinalData(MatchingDup(dups, ids[i].id),
                                     ImportedData(dups, ids[i].id), ids[i], m)]]

\* a new app: the formatted record without _originalIndex
NewApp(record) ==
    [appData |-> record.appData, rootDomain |-> record.rootDomain,
     customfields |-> record.customfields]

\* the webhookData handleImport builds, with its formattedRecords; dups are the
\* duplicates as handleImport leaves them
BuildWebhookData(d, m, groups, csvRes, dups, res) ==
    LET formatted == formattedRecords(d, m, groups, csvRes)
        new       == SelectSeq(formatted, LAMBDA r : ~inAirtable(r, dups))
        updated   == updatedApps(dups, res, m)
        unchanged == unchangedApps(dups, res, m)
    IN  [built |-> TRUE,
         formattedRecords |-> formatted,
         newApps |-> [i \in DOMAIN new |-> NewApp(new[i])],
         updatedApps |-> updated,
         unchangedApps |-> unchanged,
         summary |-> [totalProcessed |-> Len(formatted),
                      newApps |-> Len(new),
                      updatedApps |-> Len(updated),
                      unchangedApps |-> Len(unchanged)]]

\* handleNextStep, case "import": handleImport up to `await processImport`;
\* the call keeps the data and mappings of the render it was started from
NextFromImport ==
    /\ ~NextDisabled
    /\ step = "import"
    /\ isLoading' = TRUE
    /\ flight' = [kind |-> "import", data |-> data, mappings |-> mappings]
    /\ UNCHANGED <<file, reading, headers, mappings, step, data>>
    /\ UNCHANGED csvVars
    /\ UNCHANGED <<duplicates, duplicateResolutions, invalidData, importResult, env,
                   webhookData>>

ServerOutcomes == {"ok", "throw"}

\* `await processImport` returns or throws; on return the payload is built and
\* the webhook request goes out
ProcessImportDone(outcome) ==
    /\ flight.kind = "import"
    /\ outcome \in ServerOutcomes
    /\ IF outcome = "ok"
       THEN /\ importResult' = processImport(flight.data, flight.mappings,
                                             duplicateResolutions)
            /\ duplicates' = MutatedDuplicates(duplicates, duplicateResolutions,
                                               flight.mappings)
            /\ webhookData' = BuildWebhookData(flight.data, flight.mappings,
                                               csvDuplicates, csvDuplicateResolutions,
                                               duplicates', duplicateResolutions)
            /\ flight' = [kind |-> "webhook"]
            /\ UNCHANGED isLoading
       ELSE /\ importResult' = ImportFailed
            /\ flight' = NoFlight
            /\ isLoading' = FALSE
            /\ UNCHANGED <<webhookData, duplicates>>
    /\ UNCHANGED <<file, reading, headers, mappings, step, data>>
    /\ UNCHANGED csvVars
    /\ UNCHANGED <<duplicateResolutions, invalidData, env>>

WebhookOutcomes == {"ok", "notOk", "throw"}

\* a delivery whose failure marks the analysis as failed
DeliveredResultFailing(result, outcome) ==
    IF outcome = "ok" THEN [result EXCEPT !.webhookSuccess = TRUE]
    ELSE [result EXCEPT !.success = FALSE]

\* importResult after the fetch: setImportResult(prev => ({...prev,
\* webhookSuccess: true})) on response.ok, nothing otherwise
DeliveredResult(result, outcome) ==
    IF outcome = "ok" THEN [result EXCEPT !.webhookSuccess = TRUE] ELSE result

\* `await fetch(webhookUrl, ...)` ends: response.ok, a non-OK response, or an error
WebhookDone(outcome) ==
    /\ flight.kind = "webhook"
    /\ outcome \in WebhookOutcomes
    /\ importResult' = DeliveredResult(importResult, outcome)
    /\ flight' = NoFlight
    /\ webhookData' = NoWebhookData
    /\ isLoading' = FALSE
    /\ UNCHANGED <<file, reading, headers, mappings, step, data>>
    /\ UNCHANGED csvVars
    /\ UNCHANGED <<duplicates, duplicateResolutions, invalidData, env>>

-----------------------------------------------------------------------------
(* The wizard as a whole *)

\* rows of the imported file: App Name, App ID, Developer
ImportRows ==
    << <<"a", "1", "x">>, <<"c", "2", "x">>, <<"a", "3", "x">>, <<"a", "4", "y">> >>

ImportHeaders == <<"App Name", "App ID", "Developer">>

\* the files a user picks: MaxRows rows under the expected headers, and a
\* file whose name column has a header that no canonical label matches
ImportFiles ==
    {[name |-> "apps.csv", headers |-> ImportHeaders,
      lines |-> SubSeq(ImportRows, 1, MaxRows)],
     [name |-> "other.csv", headers |-> <<"Name", "App ID">>,
      lines |-> << <<"a", "1">> >>]}

\* the controls that are exercised
RemappedHeaders == {"App Name", "Name"}
ImportTargets(header) == {"appName", CustomKey(header)}
MatchFieldChoices == {"appName"}
MergeFieldChoices == {"appId"}

MatchedIds ==
    UNION {{duplicates[d].duplicates[r].id : r \in DOMAIN duplicates[d].duplicates} :
              d \in DOMAIN duplicates}

\* Navigation and asynchrony: every step forward and back, file selection
\* racing with the pending read, remapping, the remote lookups and the import.
Next ==
    \/ \E f \in ImportFiles : reading = {} /\ handleFileChange(f)
    \/ \E f \in reading : parseCSV(f)
    \/ \E h \in SeqToSet(headers) \cap RemappedHeaders :
          \E v \in ImportTargets(h) : handleMappingChange(h, v)
    \/ NextFromUpload
    \/ NextFromMapping
    \/ NextFromCsvDuplicates
    \/ NextFromValidation
    \/ NextFromDuplicates
    \/ NextFromImport
    \/ Back
    \/ \E outcome \in LookupOutcomes : LookupDone(outcome)
    \/ \E outcome \in ServerOutcomes : ProcessImportDone(outcome)
    \/ \E outcome \in WebhookOutcomes : WebhookDone(outcome)

Spec == Init /\ [][Next]_vars

-----------------------------------------------------------------------------
(* Resolution of duplicates on the way forward: one file, every control of *)
(* the csvDuplicates and duplicates steps, then the lookups and the import. *)

ResolveFiles == {f \in ImportFiles : f.name = "apps.csv"}

InitResolve == Init /\ env = [recordId |-> "rec1", configured |-> TRUE]

NextResolve ==
    \/ \E f \in ResolveFiles : file = FileNone /\ handleFileChange(f)
    \/ \E f \in reading : parseCSV(f)
    \/ NextFromUpload
    \/ NextFromMapping
    \/ NextFromCsvDuplicates
    \/ NextFromValidation
    \/ NextFromDuplicates
    \/ NextFromImport
    \/ \E field \in MatchFieldChoices : handleMatchFieldChange(field)
    \/ \E value \in DuplicateActions : BulkAction(value)
    \/ \E g \in DOMAIN csvDuplicates : \E value \in DuplicateActions : GroupAction(g, value)
    \/ \E g \in DOMAIN csvDuplicates :
          \E r \in DOMAIN csvDuplicates[g].records : SelectRecord(g, r)
    \/ \E g \in DOMAIN csvDuplicates :
          \E r \in DOMAIN csvDuplicates[g].records :
             \E field \in MergeFieldChoices : MergeCheckbox(g, field, r)
    \/ \E outcome \in LookupOutcomes : LookupDone(outcome)
    \/ \E id \in MatchedIds : \E action \in RemoteActions : handleDuplicateResolution(id, action)
    \/ \E outcome \in ServerOutcomes : ProcessImportDone(outcome)
    \/ \E outcome \in WebhookOutcomes : WebhookDone(outcome)

SpecResolve == InitResolve /\ [][NextResolve]_vars

-----------------------------------------------------------------------------
(* Properties of the resolution of duplicates *)

\* original indices of the members of a group
Members(group) == {group.records[r]._originalIndex : r \in DOMAIN group.records}

\* original indices of the rows that belong to some group
GroupedRows == UNION {Members(csvDuplicates[g]) : g \in DOMAIN csvDuplicates}

\* positions of the survivor list s that hold a row of the set rows
Survivors(s, rows) == {p \in DOMAIN s : s[p]._originalIndex \in rows}

\* a checkForDuplicates is in progress: flight.deduplicatedData are its survivors
Checking == flight.kind = "check"

\* a handleImport has built its payload: webhookData.formattedRecords are its
\* survivors
Finalized == webhookData.built

\* C1: the summary handleImport builds has
\* newApps + updatedApps + unchangedApps = totalProcessed, the number of rows
\* that survive the resolution of the duplicates of the file.
C1_SummaryPartition ==
    Finalized =>
        webhookData.summary.newApps + webhookData.summary.updatedApps
            + webhookData.summary.unchangedApps = webhookData.summary.totalProcessed

\* C2: no member of a group whose resolution is skip is a survivor, neither
\* among the rows checkForDuplicates looks up nor among the records handleImport
\* finalizes.
C2_SkipLeavesNoSurvivor ==
    \A g \in DOMAIN csvDuplicates :
        ActionOf(csvDuplicateResolutions, csvDuplicates[g].key) = "skip" =>
            /\ Checking =>
                  Survivors(flight.deduplicatedData, Members(csvDuplicates[g])) = {}
            /\ Finalized =>
                  Survivors(webhookData.formattedRecords, Members(csvDuplicates[g])) = {}

\* the value of field f in the merged composite of a group: the value of the
\* member chosen with the checkbox, the first member's when none is chosen
MergedValue(group, resolution, f) ==
    IF f \in DOMAIN resolution.mergeFields
    THEN group.records[resolution.mergeFields[f] + 1].appData[f]
    ELSE group.records[1].appData[f]

\* the survivor list s holds exactly one row of the group: the merged composite
\* at the first member's original index
MergedSurvivor(s, group, resolution) ==
    /\ Cardinality(Survivors(s, Members(group))) = 1
    /\ \A p \in Survivors(s, Members(group)) :
          /\ s[p]._originalIndex = group.records[1]._originalIndex
          /\ \A f \in FieldNames : s[p].appData[f] = MergedValue(group, resolution, f)

\* C3: a group whose resolution is merge yields exactly one survivor, at the
\* first member's original index, with each field taken from the member chosen
\* in mergeFields and from the first member otherwise.
C3_MergeYieldsComposite ==
    \A g \in DOMAIN csvDuplicates :
        ActionOf(csvDuplicateResolutions, csvDuplicates[g].key) = "merge" =>
            LET resolution == csvDuplicateResolutions[csvDuplicates[g].key]
            IN  /\ Checking =>
                      MergedSurvivor(flight.deduplicatedData, csvDuplicates[g], resolution)
                /\ Finalized =>
                      MergedSurvivor(webhookData.formattedRecords, csvDuplicates[g],
                                     resolution)

\* the survivor list s keeps every row outside the groups once and as it is in
\* the file, repeats no original index and holds at most one row per group
SurvivorsSound(s) ==
    /\ \A i \in 0..(Len(data) - 1) :
          i \notin GroupedRows =>
              /\ Cardinality(Survivors(s, {i})) = 1
              /\ \A p \in Survivors(s, {i}) :
                    \A f \in FieldNames :
                        s[p].appData[f] = IF f \in DOMAIN mappings
                                          THEN data[i + 1][mappings[f]] ELSE ""
    /\ \A p, q \in DOMAIN s : s[p]._originalIndex = s[q]._originalIndex => p = q
    /\ \A g \in DOMAIN csvDuplicates :
          Cardinality(Survivors(s, Members(csvDuplicates[g]))) <= 1

\* C4: the survivor lists of checkForDuplicates and of handleImport contain
\* each row outside the duplicate groups exactly once with its field values
\* unchanged, no original index twice, and at most one row per group.
C4_SurvivorsSound ==
    /\ Checking => SurvivorsSound(flight.deduplicatedData)
    /\ Finalized => SurvivorsSound(webhookData.formattedRecords)

\* C4 witness: a file with a duplicate group and a row outside it has been
\* looked up and finalized, and the payload holds fewer records than the file
\* has rows.
C4_Witness ==
    /\ Finalized
    /\ csvDuplicates # <<>>
    /\ \E i \in 0..(Len(data) - 1) : i \notin GroupedRows
    /\ duplicates # <<>>
    /\ Len(webhookData.formattedRecords) < Len(data)

\* C8: whenever the step is csvDuplicates, validation, duplicates or import,
\* the mappings have an appName entry.
C8_DownstreamHasAppName ==
    step \in {"csvDuplicates", "validation", "duplicates", "import"} =>
        HasAppName(mappings)

\* the original index that keepFirst and keepLast are to select in a group
ExpectedIndex(value, group) ==
    IF value = "keepFirst"
    THEN group.records[1]._originalIndex
    ELSE group.records[Len(group.records)]._originalIndex

\* C9: applying keepFirst, as bulk action or as the action of one group, sets
\* the selectedIndex of the group to the original index of its first member,
\* and applying keepLast sets it to that of its last member.
C9_KeepFirstLastSelectMember ==
    [][\A value \in {"keepFirst", "keepLast"} :
          /\ BulkAction(value) =>
                \A g \in DOMAIN csvDuplicates :
                    csvDuplicateResolutions'[csvDuplicates[g].key].selectedIndex
                        = ExpectedIndex(value, csvDuplicates[g])
          /\ \A g \in DOMAIN csvDuplicates :
                GroupAction(g, value) =>
                    csvDuplicateResolutions'[csvDuplicates[g].key].selectedIndex
                        = ExpectedIndex(value, csvDuplicates[g])]_vars

\* C9 witness: with the bulk action at keepFirst, a group has been set to
\* keepLast and selects its last member, which is not its first.
C9_Witness ==
    /\ bulkDuplicateAction = "keepFirst"
    /\ \E g \in DOMAIN csvDuplicates :
          /\ ActionOf(csvDuplicateResolutions, csvDuplicates[g].key) = "keepLast"
          /\ csvDuplicateResolutions[csvDuplicates[g].key].selectedIndex
                = ExpectedIndex("keepLast", csvDuplicates[g])
          /\ ExpectedIndex("keepLast", csvDuplicates[g])
                # ExpectedIndex("keepFirst", csvDuplicates[g])

\* C10: once a bulk action is chosen, the resolution of every current group
\* has that action.
C10_BulkSetsEveryGroup ==
    [][\A value \in DuplicateActions :
          BulkAction(value) =>
              \A g \in DOMAIN csvDuplicates :
                  ActionOf(csvDuplicateResolutions', csvDuplicates[g].key) = value]_vars

-----------------------------------------------------------------------------
(* The remote stage explored on its own: a file with a website column and  *)
(* a custom column, the lookups with their failures, every control of the  *)
(* duplicates step, and finalization repeated after going back.            *)

MaxSiteRows == 2

\* rows of the file: App Name, Company Website, Notes
SiteRows ==
    << <<"a", "https://New.com/p", "n1">>, <<"c", "", "n2">>, <<"", "x.org", "n3">> >>

\* sites.csv, and a file whose first row has the website of recA under
\* another app name
SiteFiles ==
    {[name |-> "sites.csv", headers |-> <<"App Name", "Company Website", "Notes">>,
      lines |-> SubSeq(SiteRows, 1, MaxSiteRows)],
     [name |-> "known.csv", headers |-> <<"App Name", "Company Website">>,
      lines |-> << <<"z", "www.Old.io">>, <<"y", "">> >>]}

\* the fields whose merge RadioGroup is exercised
FieldResolutionChoices == {"companyWebsite", "appId"}

NextRemote ==
    \/ \E f \in SiteFiles : file = FileNone /\ handleFileChange(f)
    \/ \E f \in reading : parseCSV(f)
    \/ NextFromUpload
    \/ NextFromMapping
    \/ NextFromCsvDuplicates
    \/ NextFromValidation
    \/ NextFromDuplicates
    \/ NextFromImport
    \/ Back
    \/ \E outcome \in LookupOutcomes : LookupDone(outcome)
    \/ \E id \in MatchedIds : \E action \in RemoteActions : handleDuplicateResolution(id, action)
    \/ \E id \in MatchedIds : \E field \in FieldResolutionChoices :
          \E resolution \in FieldResolutions : handleFieldResolution(id, field, resolution)
    \/ \E outcome \in ServerOutcomes : ProcessImportDone(outcome)
    \/ \E outcome \in WebhookOutcomes : WebhookDone(outcome)

SpecRemote == Init /\ [][NextRemote]_vars

\* the resolution stored for the remote record id, as a list of none or one
ResolutionOf(res, id) == SelectSeq(res, LAMBDA r : r.id = id)

\* checkForDuplicates has just ended with matches
MatchesDiscovered ==
    /\ flight.kind = "check"
    /\ flight'.kind = "none"
    /\ duplicates' # <<>>

\* C11: when checkForDuplicates discovers matches, every matched remote record
\* id gets a resolution with action keep and each of the ten fields resolved
\* to existing; and a field that is resolved to existing stays so in every
\* step that is not a handleFieldResolution setting it to imported.
C11_DefaultKeepExisting ==
    [][/\ MatchesDiscovered =>
             \A id \in MatchedRecordIds(duplicates') :
                 /\ Len(ResolutionOf(duplicateResolutions', id)) = 1
                 /\ ResolutionOf(duplicateResolutions', id)[1].action = "keep"
                 /\ \A f \in FieldNames :
                       ResolutionOf(duplicateResolutions', id)[1].fieldResolutions[f]
                           = "existing"
       /\ \A id \in MatchedRecordIds(duplicates) :
             \A f \in FieldNames :
                 (/\ Len(ResolutionOf(duplicateResolutions, id)) = 1
                  /\ Len(ResolutionOf(duplicateResolutions', id)) = 1
                  /\ ResolutionOf(duplicateResolutions, id)[1].fieldResolutions[f]
                        = "existing"
                  /\ ResolutionOf(duplicateResolutions', id)[1].fieldResolutions[f]
                        # "existing")
                 => handleFieldResolution(id, f, "imported")]_vars

\* C11 witness: a matched record is set to merge with companyWebsite resolved
\* to imported while its other fields are still resolved to existing.
C11_Witness ==
    \E i \in DOMAIN duplicateResolutions :
        /\ duplicateResolutions[i].action = "merge"
        /\ duplicateResolutions[i].fieldResolutions["companyWebsite"] = "imported"
        /\ duplicateResolutions[i].fieldResolutions["appName"] = "existing"

\* the value of field f in a record, as a list of none (undefined) or one
FieldOf(rec, f) == IF f \in DOMAIN rec THEN <<rec[f]>> ELSE <<>>

\* the updated entries of the payload that were merged
MergedEntries ==
    {i \in DOMAIN webhookData.updatedApps :
        /\ webhookData.updatedApps[i].action = "merge"
        /\ webhookData.updatedApps[i].finalData # <<>>}

\* C12: under the remote action merge, every field of the final data is the
\* imported value when the field is resolved to imported and the imported
\* value is not empty, and the existing value otherwise, whatever the other
\* fields are resolved to.
C12_MergeIsFieldScoped ==
    Finalized =>
        \A i \in MergedEntries :
            LET u == webhookData.updatedApps[i]
            IN  \A f \in FieldNames :
                    FieldOf(u.finalData[1], f) =
                        IF /\ f \in DOMAIN u.fieldResolutions[1]
                           /\ u.fieldResolutions[1][f] = "imported"
                           /\ FieldOf(u.newData[1], f) \notin {<<>>, <<"">>}
                        THEN FieldOf(u.newData[1], f)
                        ELSE FieldOf(u.existingData[1], f)

\* C12 witness: a merged entry takes the imported website, which differs from
\* the existing one, and keeps the existing appId although appId is resolved to
\* imported, because the imported appId is empty.
C12_Witness ==
    /\ Finalized
    /\ \E i \in MergedEntries :
          LET u == webhookData.updatedApps[i]
          IN  /\ u.fieldResolutions[1]["companyWebsite"] = "imported"
              /\ u.fieldResolutions[1]["appId"] = "imported"
              /\ u.finalData[1].companyWebsite = u.newData[1].companyWebsite
              /\ u.finalData[1].companyWebsite # u.existingData[1].companyWebsite
              /\ u.newData[1].appId = ""
              /\ u.finalData[1].appId = u.existingData[1].appId
              /\ u.finalData[1].appId # ""


-----------------------------------------------------------------------------
(* The derived root domain of updated records *)

\* the companyWebsite that wins the resolution of an updated entry: the
\* imported one under replace; under merge the imported one when it was
\* chosen and is not empty, the existing one otherwise
WinningWebsite(entry) ==
    IF entry.action = "replace" THEN entry.newData[1].companyWebsite
    ELSE IF /\ "companyWebsite" \in DOMAIN entry.fieldResolutions[1]
            /\ entry.fieldResolutions[1].companyWebsite = "imported"
            /\ entry.newData[1].companyWebsite # ""
    THEN entry.newData[1].companyWebsite
    ELSE entry.existingData[1].companyWebsite

\* the updated entries of the payload whose finalData has a rootDomain
EntriesWithRootDomain ==
    {i \in DOMAIN webhookData.updatedApps :
        /\ webhookData.updatedApps[i].finalData # <<>>
        /\ "rootDomain" \in DOMAIN webhookData.updatedApps[i].finalData[1]}

\* C13: in every payload handleImport builds, however many finalizations and
\* changes of remote resolution came before, the rootDomain of an updated
\* record's finalData is extractRootDomain of the companyWebsite that won the
\* resolution
C13_RootDomainFromWinner ==
    webhookData.built =>
        \A i \in EntriesWithRootDomain :
            webhookData.updatedApps[i].finalData[1].rootDomain
                = extractRootDomain(WinningWebsite(webhookData.updatedApps[i]))

\* a merged record whose existing record carries the root domain of its own
\* website from an earlier finalization, while the imported website won
C13_Witness ==
    /\ webhookData.built
    /\ \E i \in EntriesWithRootDomain :
          LET entry == webhookData.updatedApps[i]
          IN  /\ entry.action = "merge"
              /\ "rootDomain" \in DOMAIN entry.existingData[1]
              /\ WinningWebsite(entry) = entry.newData[1].companyWebsite
              /\ extractRootDomain(entry.existingData[1].companyWebsite)
                    # extractRootDomain(entry.newData[1].companyWebsite)

-----------------------------------------------------------------------------
(* Failures of single lookups *)

\* what the loop has recorded after rows 1..n of dd when the lookups of the
\* rows in failed threw and the others returned
RECURSIVE ExpectedFound(_, _, _)
ExpectedFound(dd, n, failed) ==
    IF n = 0 THEN <<>>
    ELSE LET dups == findAppDuplicates(dd[n].appData, env.recordId)
         IN  IF n \in failed \/ dups = <<>>
             THEN ExpectedFound(dd, n - 1, failed)
             ELSE Append(ExpectedFound(dd, n - 1, failed),
                         [importData |-> dd[n].appData, duplicates |-> dups,
                          matchedOn |-> matchedFields(dd[n].appData, dups)])

\* C14: a lookup that throws records no match for its row and nothing else:
\* the loop goes on to the next row with the matches of every row that did
\* not fail, and after the last row the check completes with exactly the
\* matches of the rows whose lookup returned
C14_LookupFailureIsLocal ==
    [][flight.kind = "check" =>
          LET dd  == flight.deduplicatedData
              row == flight.row
          IN  IF row < Len(dd)
              THEN /\ flight'.kind = "check"
                   /\ flight'.row = row + 1
                   /\ flight'.deduplicatedData = dd
                   /\ flight.failed \subseteq flight'.failed
                   /\ flight'.failed \subseteq flight.failed \cup {row}
                   /\ flight'.found = ExpectedFound(dd, row, flight'.failed)
              ELSE /\ flight'.kind = "none"
                   /\ ~isLoading'
                   /\ step' = IF duplicates' = <<>> THEN "import" ELSE "duplicates"
                   /\ duplicates' \in {ExpectedFound(dd, row, flight.failed),
                                       ExpectedFound(dd, row, flight.failed \cup {row})}]_vars

\* a completed check that holds the matches of a row although the lookup of
\* an earlier row, which has matches in the table, failed
C14_Witness ==
    /\ flight.kind = "none"
    /\ step = "duplicates"
    /\ LET todo == deduplicatedData(data, csvDuplicates, csvDuplicateResolutions)
           app(i) == AppData(data[todo[i] + 1], mappings)
           held(i) == \E d \in DOMAIN duplicates :
                         duplicates[d].importData.appName = app(i).appName
       IN  \E i \in DOMAIN todo : \E j \in DOMAIN todo :
              /\ i < j
              /\ findAppDuplicates(app(i), env.recordId) # <<>>
              /\ ~held(i)
              /\ held(j)

-----------------------------------------------------------------------------
(* A session without a recordID *)

\* C15: without a recordID no lookup is ever awaited and no match is stored,
\* and every payload holds all its formatted records as new apps and no
\* updated or unchanged app
C15_NoRecordIdAllNew ==
    env.recordId = "" =>
        /\ flight.kind # "check"
        /\ duplicates = <<>>
        /\ webhookData.built =>
              /\ webhookData.updatedApps = <<>>
              /\ webhookData.unchangedApps = <<>>
              /\ webhookData.newApps
                    = [i \in DOMAIN webhookData.formattedRecords |->
                          NewApp(webhookData.formattedRecords[i])]

\* a payload built without a recordID from a file with a row that has a match
\* in the table
C15_Witness ==
    /\ env.recordId = ""
    /\ webhookData.built
    /\ \E i \in DOMAIN webhookData.newApps :
          \E id \in RecordIds :
             findAppDuplicates(webhookData.newApps[i].appData, id) # <<>>

-----------------------------------------------------------------------------
(* Back navigation *)

\* a step of the Back button: the only step that moves the wizard backwards
BackStep == step' # step /\ step' = PreviousStep(step)

\* C16: a step back from duplicates or import leaves no remote match, no
\* remote resolution and no import result, and a step back to a step before
\* csvDuplicates leaves no duplicate group and no group resolution
C16_BackDiscardsDownstream ==
    [][BackStep =>
          /\ step \in {"duplicates", "import"} =>
                /\ duplicates' = <<>>
                /\ duplicateResolutions' = <<>>
                /\ ~importResult'.set
          /\ step' \in {"upload", "mapping"} =>
                /\ csvDuplicates' = <<>>
                /\ DOMAIN csvDuplicateResolutions' = {}]_vars

-----------------------------------------------------------------------------
(* A deployment without the Airtable API key or base id *)

\* C17: when the configuration is missing, a duplicate check never completes
\* as a check that found no duplicates, with the wizard moved from validation
\* to import
C17_MissingConfigurationIsFatal ==
    [][~env.configured /\ flight.kind = "check" =>
          ~(flight'.kind = "none" /\ duplicates' = <<>> /\ step' = "import")]_vars

-----------------------------------------------------------------------------
(* What a failure leaves in the stored result *)

\* the step that ends the duplicate check, and the one that ends the delivery
\* of the payload
CheckEnds == flight.kind = "check" /\ flight'.kind = "none"
DeliveryEnds == flight.kind = "webhook" /\ flight'.kind = "none"

\* C18: a check in which a lookup has failed leaves matches or an import
\* result that differ from those of the same check without a failure, and a
\* delivery leaves the import result either flagged webhookSuccess or, when
\* it failed, without that flag
C18_FailureLeavesTrace ==
    [][/\ CheckEnds /\ flight.failed # {} =>
             \/ duplicates' # ExpectedFound(flight.deduplicatedData,
                                            Len(flight.deduplicatedData), {})
             \/ importResult' # importResult
       /\ DeliveryEnds =>
             /\ ~importResult.webhookSuccess
             /\ importResult' \in {importResult,
                                   [importResult EXCEPT !.webhookSuccess = TRUE]}]_vars

-----------------------------------------------------------------------------
(* Rows without an app name *)

\* a file whose rows all have an app name, and one with two rows that have
\* none: one with an app id, one with nothing at all
ValidateFiles ==
    {[name |-> "named.csv", headers |-> <<"App Name", "App ID">>,
      lines |-> << <<"a", "1">> >>],
     [name |-> "blank.csv", headers |-> <<"App Name", "App ID">>,
      lines |-> << <<"", "7">>, <<"c", "2">>, <<"", "">> >>]}

InitValidate == Init /\ env = [recordId |-> "rec1", configured |-> TRUE]

\* the wizard with a second file picked while the first is still being read
NextValidate ==
    \/ \E f \in ValidateFiles : handleFileChange(f)
    \/ \E f \in reading : parseCSV(f)
    \/ NextFromUpload
    \/ NextFromMapping
    \/ NextFromCsvDuplicates
    \/ NextFromValidation
    \/ NextFromDuplicates
    \/ NextFromImport
    \/ Back
    \/ \E outcome \in LookupOutcomes : LookupDone(outcome)
    \/ \E outcome \in ServerOutcomes : ProcessImportDone(outcome)
    \/ \E outcome \in WebhookOutcomes : WebhookDone(outcome)

SpecValidate == InitValidate /\ [][NextValidate]_vars

\* the rows of d whose mapped appName is empty
Nameless(d, m) == {i \in DOMAIN d : AppData(d[i], m).appName = ""}

\* the step in which Next is pressed on the validation step, and the one in
\* which the awaited processImport ends
ValidationRuns ==
    step = "validation" /\ flight.kind = "none" /\ step' \notin {"mapping", "csvDuplicates"}
ProcessImportEnds == flight.kind = "import" /\ flight'.kind # "import"

\* C19: when a row has an empty mapped appName, validateData fails (no check
\* starts, the step stays) and lists each such row in invalidData with an
\* appName error, and processImport ends with success false and errors
C19_NamelessRowsRejected ==
    [][/\ ValidationRuns /\ Nameless(data, mappings) # {} =>
             /\ step' = "validation"
             /\ flight'.kind = "none"
             /\ \A i \in Nameless(data, mappings) :
                   \E k \in DOMAIN invalidData' :
                      /\ invalidData'[k].row = data[i]
                      /\ invalidData'[k].errors.appName # <<>>
       /\ ProcessImportEnds /\ Nameless(flight.data, flight.mappings) # {} =>
             /\ importResult'.set
             /\ ~importResult'.success
             /\ importResult'.errors # <<>>]_vars

\* validateData has listed a row that has an app id but no app name, and
\* processImport has rejected the rows it was given
C19_Witness ==
    /\ importResult.message = "Validation failed for some records"
    /\ \E k \in DOMAIN invalidData :
          /\ AppData(invalidData[k].row, mappings).appName = ""
          /\ AppData(invalidData[k].row, mappings).appId # ""

-----------------------------------------------------------------------------
(* Custom fields of the payload *)

\* the bag the mappings prescribe for a row: every header mapped under a
\* custom_ key, with the cell the row has under that header
HeaderBag(row, m) ==
    [h \in {m[k] : k \in CustomKeys(m)} |-> IF h \in DOMAIN row THEN row[h] ELSE ""]

\* the customfields of an object of the payload, empty when it has none
BagOf(obj) == IF "customfields" \in DOMAIN obj THEN obj.customfields ELSE EmptyMap

\* the rows of data that the import data of the match with record id came from
OriginRows(id) ==
    LET imported == ImportedData(duplicates, id)
    IN  {i \in DOMAIN data :
            imported # <<>>
               /\ \A f \in FieldNames : AppData(data[i], mappings)[f] = imported[1][f]}

\* the bag of every formatted record, and so of every new app, is the bag of
\* its row
NewBagsFromRows ==
    /\ \A i \in DOMAIN webhookData.formattedRecords :
          LET record == webhookData.formattedRecords[i]
          IN  record.customfields = HeaderBag(data[record._originalIndex + 1], mappings)
    /\ \A i \in DOMAIN webhookData.newApps :
          \E j \in DOMAIN webhookData.formattedRecords :
             webhookData.newApps[i] = NewApp(webhookData.formattedRecords[j])

UpdatedBagsFromRows ==
    \A i \in DOMAIN webhookData.updatedApps :
        LET entry == webhookData.updatedApps[i]
        IN  entry.finalData # <<>> =>
               \E r \in OriginRows(entry.id) :
                  BagOf(entry.finalData[1]) = HeaderBag(data[r], mappings)

UnchangedBagsFromRows ==
    \A i \in DOMAIN webhookData.unchangedApps :
        LET entry == webhookData.unchangedApps[i]
        IN  \E r \in OriginRows(entry.id) :
               BagOf(entry.data) = HeaderBag(data[r], mappings)

\* C20: in every payload the custom-field bag of each new, updated and
\* unchanged record maps every header mapped under a custom_ key to the cell
\* that the imported row the record comes from has under that header
C20_BagsHoldRowValues ==
    webhookData.built =>
        NewBagsFromRows /\ UpdatedBagsFromRows /\ UnchangedBagsFromRows

-----------------------------------------------------------------------------
(* The fields the README names for duplicate detection *)

ReadmeMatchFields ==
    {"companyWebsite", "companyLinkedinUrl", "sensorTowerId", "googlePlayId", "developerId"}

\* the records of the table in the scope of the session's recordID
InScope ==
    {i \in DOMAIN AirtableTable :
        env.recordId # "" /\ Contains(AirtableTable[i].campaign, env.recordId)}

\* found flags the row with appData as a potential duplicate of record id
Flagged(found, appData, id) ==
    \E d \in DOMAIN found :
        /\ found[d].importData = appData
        /\ \E r \in DOMAIN found[d].duplicates : found[d].duplicates[r].id = id

\* C21: every row whose lookup has returned is flagged as a potential
\* duplicate of each in-scope record that has the row's non-empty Company
\* Website, Company LinkedIn URL, Sensor Tower ID, Google Play ID or
\* Developer ID
C21_ReadmeFieldsFlagDuplicates ==
    flight.kind = "check" =>
        \A n \in 1..(flight.row - 1) : \A i \in InScope :
            LET appData == flight.deduplicatedData[n].appData
            IN  (/\ n \notin flight.failed
                 /\ \E f \in ReadmeMatchFields :
                       appData[f] # "" /\ appData[f] = AirtableTable[i][f])
                   => Flagged(flight.found, appData, AirtableTable[i].id)

-----------------------------------------------------------------------------
(* Inline correction of invalid rows *)

\* the values typed into an Input
CorrectionValues == {"", "a", "q"}

\* the fields whose Input is exercised
CorrectedFields == {"appName", "appId"}

NextCorrect ==
    \/ \E f \in ValidateFiles : file = FileNone /\ handleFileChange(f)
    \/ \E f \in reading : parseCSV(f)
    \/ NextFromUpload
    \/ NextFromMapping
    \/ NextFromCsvDuplicates
    \/ NextFromValidation
    \/ \E index \in DOMAIN invalidData : \E field \in CorrectedFields :
          \E value \in CorrectionValues : handleDataCorrection(index, field, value)
    \/ \E outcome \in LookupOutcomes : LookupDone(outcome)

SpecCorrect == InitValidate /\ [][NextCorrect]_vars

\* the position in d of the row the invalid row at position index was derived
\* from: the index-th row of d without an app name (validateData keeps the
\* order of the rows, and no correction changes which rows have a name)
RECURSIVE OriginOf(_, _, _, _)
OriginOf(d, m, index, from) ==
    IF from > Len(d) THEN 0
    ELSE IF AppData(d[from], m).appName = ""
    THEN IF index = 1 THEN from ELSE OriginOf(d, m, index - 1, from + 1)
    ELSE OriginOf(d, m, index, from + 1)

\* C22: a correction writes the value into the row the invalid row was
\* derived from and into no other row, and once every invalid row has a
\* non-empty appName, validateData finds no invalid row
C22_CorrectionReachesOrigin ==
    [][\A index \in DOMAIN invalidData : \A field \in CorrectedFields :
          \A value \in CorrectionValues :
             handleDataCorrection(index, field, value) =>
                LET origin == OriginOf(data, mappings, index, 1)
                IN  /\ origin # 0
                    /\ data' = [data EXCEPT ![origin] =
                                               Put(@, MappedKey(mappings, field), value)]
                    /\ (\A k \in DOMAIN invalidData' :
                           AppData(invalidData'[k].row, mappings).appName # "")
                          => InvalidRows(data', mappings) = <<>>]_vars

-----------------------------------------------------------------------------
(* Empty identity fields *)

IdentityFields == {"appName", "appId", "googlePlayId", "sensorTowerId"}

\* the matches held by the check in flight and by the duplicates state
RecordedMatches ==
    (IF flight.kind = "check" THEN SeqToSet(flight.found) ELSE {}) \cup SeqToSet(duplicates)

\* C23: the query of a row carries no condition on an empty field, a row with
\* all four identity fields empty gets no match, and matchedOn names a field
\* only if the row's value for it is not empty and equal to that field of a
\* returned record
C23_EmptyFieldsNeverMatch ==
    /\ flight.kind = "check" =>
          \A n \in DOMAIN flight.deduplicatedData :
             LET appData == flight.deduplicatedData[n].appData
             IN  /\ \A f \in matchConditions(appData) : appData[f] # ""
                 /\ (\A f \in IdentityFields : appData[f] = "")
                       => findAppDuplicates(appData, env.recordId) = <<>>
    /\ \A match \in RecordedMatches :
          \A f \in SeqToSet(match.matchedOn) :
             /\ match.importData[f] # ""
             /\ \E r \in DOMAIN match.duplicates :
                   match.duplicates[r][f] = match.importData[f]

-----------------------------------------------------------------------------
(* Repeated finalization *)

\* the original indices handleImport keeps when it is run in the current state
SurvivorSet ==
    SeqToSet(keepIndices(data, csvDuplicates, csvDuplicateResolutions))

\* the original indices of the records of a payload
PayloadSurvivors(payload) ==
    {payload.formattedRecords[i]._originalIndex : i \in DOMAIN payload.formattedRecords}

\* a step of handleImport: its start, the end of processImport, the end of the
\* delivery
ImportStep ==
    \/ flight.kind = "none" /\ flight'.kind = "import"
    \/ flight.kind = "import"
    \/ flight.kind = "webhook"

-----------------------------------------------------------------------------
(* A failed delivery *)

DeliveryFailures == {"notOk", "throw"}

\* the three buckets of a payload
Buckets(payload) ==
    [newApps |-> payload.newApps, updatedApps |-> payload.updatedApps,
     unchangedApps |-> payload.unchangedApps]

\* the buckets handleImport computes from the current state
CurrentBuckets ==
    Buckets(BuildWebhookData(data, mappings, csvDuplicates, csvDuplicateResolutions,
                             duplicates, duplicateResolutions))

\* C25: a delivery that ends with a non-OK response or an error leaves success,
\* message, analyzed and duplicatesFound of importResult as processImport
\* returned them, leaves webhookSuccess false, and leaves a state from which
\* the buckets are the ones of the payload
C25_DeliveryFailureKeepsResult ==
    [][\A outcome \in DeliveryFailures :
          WebhookDone(outcome) =>
             /\ importResult'.success = importResult.success
             /\ importResult'.message = importResult.message
             /\ importResult'.analyzed = importResult.analyzed
             /\ importResult'.duplicatesFound = importResult.duplicatesFound
             /\ ~importResult'.webhookSuccess
             /\ UNCHANGED <<data, mappings, csvDuplicates, csvDuplicateResolutions,
                            duplicates, duplicateResolutions>>
             /\ CurrentBuckets = Buckets(webhookData)]_vars

\* a delivery has failed after a successful analysis of a file with matches
C25_Witness ==
    /\ flight.kind = "none"
    /\ step = "import"
    /\ importResult.set /\ importResult.success /\ ~importResult.webhookSuccess
    /\ duplicates # <<>>

-----------------------------------------------------------------------------
(* Resolutions of the current groups *)

\* C26: every group in csvDuplicates has a resolution whose action is one of
\* keepFirst, keepLast, merge, skip and whose selectedIndex is the original
\* index of a member of the group
C26_GroupsHaveResolutions ==
    \A g \in DOMAIN csvDuplicates :
        /\ csvDuplicates[g].key \in DOMAIN csvDuplicateResolutions
        /\ csvDuplicateResolutions[csvDuplicates[g].key].action \in DuplicateActions
        /\ csvDuplicateResolutions[csvDuplicates[g].key].selectedIndex
              \in Members(csvDuplicates[g])

\* a group that was set to skip after its last member had been selected
C26_Witness ==
    /\ step = "csvDuplicates"
    /\ \E g \in DOMAIN csvDuplicates :
          /\ csvDuplicates[g].key \in DOMAIN csvDuplicateResolutions
          /\ csvDuplicateResolutions[csvDuplicates[g].key].action = "skip"
          /\ csvDuplicateResolutions[csvDuplicates[g].key].selectedIndex
                # FirstIndex(csvDuplicates[g])

-----------------------------------------------------------------------------
(* Events while a Next action is in flight *)

\* C27: while the remote check or the import is in flight, no step changes the
\* rows or the mappings, and only the completion of the action changes the step
C27_InFlightIsExclusive ==
    [][flight.kind # "none" =>
          /\ data' = data
          /\ mappings' = mappings
          /\ (step' # step => flight'.kind = "none")]_vars

-----------------------------------------------------------------------------
(* The rows looked up and the rows imported *)

\* the original indices checkForDuplicates would send to the remote lookup
LookedUpSet ==
    SeqToSet(deduplicatedData(data, csvDuplicates, csvDuplicateResolutions))

\* C28: under every resolution of the groups, the rows that checkForDuplicates
\* looks up are the rows that handleImport keeps
C28_LookedUpAreKept == LookedUpSet = SurvivorSet

-----------------------------------------------------------------------------
(* The survivors and the buckets of the payload *)

\* importData holds the field values of the formatted record
SameApp(importData, record) ==
    \A f \in FieldNames : importData[f] = record.appData[f]

\* the record is the imported side of an entry of updatedApps or of the match
\* an entry of unchangedApps was built from
ImportedSide(payload, record) ==
    \/ \E u \in DOMAIN payload.updatedApps :
          /\ payload.updatedApps[u].newData # <<>>
          /\ SameApp(payload.updatedApps[u].newData[1], record)
    \/ \E u \in DOMAIN payload.unchangedApps :
          /\ ImportedData(duplicates, payload.unchangedApps[u].id) # <<>>
          /\ SameApp(ImportedData(duplicates, payload.unchangedApps[u].id)[1], record)

\* C29: every surviving row of a payload is one of its newApps or the imported
\* side of an entry of its updatedApps or unchangedApps
C29_NoSurvivorLost ==
    Finalized =>
        \A i \in DOMAIN webhookData.formattedRecords :
            \/ \E n \in DOMAIN webhookData.newApps :
                  webhookData.newApps[n] = NewApp(webhookData.formattedRecords[i])
            \/ ImportedSide(webhookData, webhookData.formattedRecords[i])

-----------------------------------------------------------------------------
(* The resolutions and the stored matches *)

\* the keys of duplicateResolutions
ResolvedIds == {duplicateResolutions[i].id : i \in DOMAIN duplicateResolutions}

\* the ids of the entries of updatedApps and unchangedApps of a payload
EntryIds(payload) ==
    {payload.updatedApps[u].id : u \in DOMAIN payload.updatedApps}
        \cup {payload.unchangedApps[u].id : u \in DOMAIN payload.unchangedApps}

\* C30: outside a running checkForDuplicates the keys of duplicateResolutions
\* are the ids of the records of the stored matches, and the entries of
\* updatedApps and unchangedApps of a payload refer to those records
C30_ResolutionsFollowMatches ==
    /\ ~Checking => ResolvedIds = MatchedIds
    /\ Finalized => EntryIds(webhookData) \subseteq MatchedIds
=============================================================================
